---- MODULE Spec2Model ----
(***************************************************************************)
(* pymrio/tools/ntnu.py: parse_mat, the converter from an NTNU mat file to *)
(* a pymrio IOSystem.  One call of parse_mat is modelled statement group   *)
(* by statement group; pc is the position of the call, and an exception    *)
(* ends the call in pc = "raised" with the locals as they were.            *)
(*                                                                         *)
(* The file enters the model as the container scipy.io.loadmat returns     *)
(* (struct_as_record=False, squeeze_me=True already applied): label tables *)
(* are 2-d, a matrix is a 2-d array or a scipy.sparse matrix, and a cell   *)
(* of the stressor table is any Python value.                              *)
(*                                                                         *)
(* ntnu.py calls logging.debug but has no `import logging` (lines 5-17):   *)
(* the name resolves only where something else has bound it in the         *)
(* module's namespace.  logging_defined says whether it does; where it     *)
(* does not, line 99 raises NameError.                                     *)
(***************************************************************************)
EXTENDS Integers, Sequences, FiniteSets, TLC

VARIABLES
    mat_file, name, io_system, struct,   \* the parameters of parse_mat
    disk,                                \* the container loadmat returns for the file
    logging_defined,                     \* whether the global name `logging` resolves
    pc, error,
    mat_all, mat_io, mat_meta,
    ll_sec, ll_reg, ll_fd_cat, ll_fd_reg,
    ll_stress_names, _ll_stress_comp, _ll_stress_unit,
    ll_stress_comp, ll_stress_unit,
    multiind_mon, multiind_fd_col, multiind_stress_row,
    ss_version, ss_year, ss_io_system,
    df_Z, df_Y, df_F, df_F_hh, df_mon_unit, df_F_unit,
    io_to_py, meta_rec, retval

args      == <<name, io_system, struct, disk, logging_defined>>
loadedV   == <<mat_all, mat_io, mat_meta>>
monV      == <<ll_sec, ll_reg>>
fdV       == <<ll_fd_cat, ll_fd_reg>>
rawV      == <<ll_stress_names, _ll_stress_comp, _ll_stress_unit>>
stressV   == <<ll_stress_comp, ll_stress_unit>>
indexV    == <<multiind_mon, multiind_fd_col, multiind_stress_row>>
ssV       == <<ss_version, ss_year, ss_io_system>>
dfV       == <<df_Z, df_Y, df_F, df_F_hh>>
unitV     == <<df_mon_unit, df_F_unit>>
outV      == <<io_to_py, meta_rec, retval>>
locals    == <<loadedV, monV, fdV, rawV, stressV, indexV, ssV, dfV, unitV, outV>>
vars      == <<mat_file, args, pc, error, locals>>

(***************************************************************************)
(* Bounds of the model: the longest label tables of a file.                *)
(***************************************************************************)
MaxMon == 2
MaxFd == 1
MaxStress == 2

(***************************************************************************)
(* Python values that meet in the stressor table.  `size` is len() cut at  *)
(* 1 (the code only tests it against 0); a float has no len().             *)
(***************************************************************************)
Str(s)       == [type |-> "str", size |-> IF s = "" THEN 0 ELSE 1, text |-> s]
EmptyArray   == [type |-> "ndarray", size |-> 0, text |-> "[]"]
ArrayOf(s)   == [type |-> "ndarray", size |-> 1, text |-> s]
Number(s)    == [type |-> "float", size |-> 0, text |-> s]

HasLen(v)    == v.type \in {"str", "ndarray"}
IsStr(v)     == v.type = "str"

Unbound == <<>>
IsBound(v) == DOMAIN v # {}

(***************************************************************************)
(* MAT_STRUCTURE: names are strings, a slice np.index_exp[:, c] is its     *)
(* column c (0-based), the sentinel is a Python str.                       *)
(***************************************************************************)
MAT_STRUCTURE ==
    [ data |-> "IO", meta |-> "meta",
      Z |-> "Z", Y |-> "Y", F |-> "F", F_hh |-> "F_hh",
      mon_labels |-> "labsZ", mon_sec_slice |-> 1, mon_reg_slice |-> 5,
      mon_unit |-> "unit",
      fd_labels |-> "labsY", fd_cat_slice |-> 1, fd_reg_slice |-> 4,
      stress_labels |-> "labsF", stress_name_slice |-> 0,
      stress_comp_slice |-> 1, stress_unit_slice |-> 2,
      version |-> "ver", year |-> "years",
      empty_comp |-> Str("n/a") ]

StructKeys == DOMAIN MAT_STRUCTURE

\* d[k] of a dict raises KeyError unless k is a key of d
Has(d, k) == k \in DOMAIN d

\* table[:, c].tolist()
Slice(table, c) == [i \in 1..Len(table) |-> table[i][c + 1]]

\* os.path.normpath on a path given by its components
RECURSIVE normpath(_)
normpath(p) ==
    IF p = <<>> THEN <<>>
    ELSE IF Head(p) = "." THEN normpath(Tail(p))
         ELSE <<Head(p)>> \o normpath(Tail(p))

\* os.path.dirname
dirname(p) == IF p = <<>> THEN <<>> ELSE SubSeq(p, 1, Len(p) - 1)

(***************************************************************************)
(* Matrices.  A dense array holds a value at every position of its shape;  *)
(* a scipy.sparse matrix holds its shape and its stored entries.           *)
(***************************************************************************)
Positions(shape) == (1..shape[1]) \X (1..shape[2])

issparse(m) == m.kind = "sparse"

\* a faulty todense: row and column of every stored entry exchanged
todenseTransposed(m) ==
    [ kind  |-> "dense",
      shape |-> m.shape,
      val   |-> [p \in Positions(m.shape) |->
                    IF \E e \in m.nz : e[1] = p[2] /\ e[2] = p[1]
                    THEN (CHOOSE e \in m.nz : e[1] = p[2] /\ e[2] = p[1])[3]
                    ELSE 0],
      nz    |-> {} ]

todense(m) ==
    [ kind  |-> "dense",
      shape |-> m.shape,
      val   |-> [p \in Positions(m.shape) |->
                    IF \E e \in m.nz : e[1] = p[1] /\ e[2] = p[2]
                    THEN (CHOOSE e \in m.nz : e[1] = p[1] /\ e[2] = p[2])[3]
                    ELSE 0],
      nz    |-> {} ]

\* _X = _X.todense() if scipy.sparse.issparse(_X) else _X
Densified(m) == IF issparse(m) THEN todense(m) ELSE m

\* a list or 1-d array given as the data of a one-column DataFrame
Column(seq) ==
    [ kind  |-> "dense",
      shape |-> <<Len(seq), 1>>,
      val   |-> [p \in (1..Len(seq)) \X {1} |-> seq[p[1]]],
      nz    |-> {} ]

\* faulty shape checks: only the rows, or only the columns, are compared
ShapeFitsRowsOnly(data, index, columns) == data.shape[1] = Len(index)
ShapeFitsColsOnly(data, index, columns) == data.shape[2] = Len(columns)

\* pd.DataFrame(data, index, columns) raises ValueError unless the shape of
\* the data is (len(index), len(columns))
ShapeFits(data, index, columns) ==
    data.shape = <<Len(index), Len(columns)>>

DataFrame(data, index, columns) ==
    [ index |-> index, columns |-> columns,
      shape |-> data.shape, values |-> data.val ]

\* a faulty pairing: the two levels exchanged
from_arraysSwapped(a, b) == [i \in 1..Len(a) |-> <<b[i], a[i]>>]

\* pd.MultiIndex.from_arrays([a, b]): the i-th label is (a[i], b[i])
from_arrays(a, b) == [i \in 1..Len(a) |-> <<a[i], b[i]>>]

(***************************************************************************)
(* The compartment / unit heuristic of parse_mat.                          *)
(***************************************************************************)
\* struct['empty_comp'] if len(unit) == 0 else orig_comp
ResolveComp(st, unit, orig_comp) ==
    IF unit.size = 0 THEN st["empty_comp"] ELSE orig_comp

\* unit_orig if type(unit_orig) is str else unit_in_comp
ResolveUnit(unit_orig, unit_in_comp) ==
    IF IsStr(unit_orig) THEN unit_orig ELSE unit_in_comp

\* a faulty conditional: the sentinel is looked up for every row
RowErrorEager(st, unit) ==
    IF ~Has(st, "empty_comp") THEN "KeyError"
    ELSE IF ~HasLen(unit) THEN "TypeError"
    ELSE "none"

\* what evaluating the first comprehension's element for one row raises
RowError(st, unit) ==
    IF ~HasLen(unit) THEN "TypeError"
    ELSE IF unit.size = 0 /\ ~Has(st, "empty_comp") THEN "KeyError"
    ELSE "none"

\* the rows are evaluated in order: the first failing row ends the call
FirstBad(st, units) ==
    IF \E i \in 1..Len(units) : RowError(st, units[i]) # "none"
    THEN LET i == CHOOSE i \in 1..Len(units) :
                    /\ RowError(st, units[i]) # "none"
                    /\ \A j \in 1..(i - 1) : RowError(st, units[j]) = "none"
         IN RowError(st, units[i])
    ELSE "none"

\* a faulty tag: derived from the file's meta section
SystemTagFromFile(param, meta) == IF meta["ver"] = "v1" THEN "pxp" ELSE "ixi"

\* ss_io_system = io_system  # no in the meta data - passed as parameter
SystemTag(param, meta) == param

(***************************************************************************)
(* Steps of parse_mat.                                                     *)
(***************************************************************************)
Raise(kind) ==
    /\ pc' = "raised"
    /\ error' = [type |-> kind, at |-> pc]
    /\ UNCHANGED <<mat_file, args, locals>>

Goto(next) ==
    /\ pc' = next
    /\ UNCHANGED <<error, args>>

NormPath ==
    /\ pc = "normpath"
    /\ mat_file' = normpath(mat_file)
    /\ Goto("log_read")
    /\ UNCHANGED locals

LogRead ==
    /\ pc = "log_read"
    /\ IF ~logging_defined
       THEN Raise("NameError")
       ELSE Goto("loadmat") /\ UNCHANGED <<mat_file, locals>>

LoadMat ==
    /\ pc = "loadmat"
    /\ mat_all' = disk
    /\ Goto("sections")
    /\ UNCHANGED <<mat_file, mat_io, mat_meta, monV, fdV, rawV, stressV,
                   indexV, ssV, dfV, unitV, outV>>

Sections ==
    /\ pc = "sections"
    /\ IF ~(/\ Has(struct, "data") /\ Has(mat_all, struct["data"])
            /\ Has(struct, "meta") /\ Has(mat_all, struct["meta"]))
       THEN Raise("KeyError")
       ELSE /\ mat_io' = mat_all[struct["data"]]
            /\ mat_meta' = mat_all[struct["meta"]]
            /\ Goto("mon_labels")
            /\ UNCHANGED <<mat_file, mat_all, monV, fdV, rawV, stressV,
                           indexV, ssV, dfV, unitV, outV>>

\* mat_meta.__dict__[struct[table]][struct[slice]] for every slice given
CanSlice(table, slices) ==
    /\ Has(struct, table)
    /\ Has(mat_meta, struct[table])
    /\ \A s \in slices : Has(struct, s)

MonLabels ==
    /\ pc = "mon_labels"
    /\ IF ~CanSlice("mon_labels", {"mon_sec_slice", "mon_reg_slice"})
       THEN Raise("KeyError")
       ELSE /\ ll_sec' = Slice(mat_meta[struct["mon_labels"]], struct["mon_sec_slice"])
            /\ ll_reg' = Slice(mat_meta[struct["mon_labels"]], struct["mon_reg_slice"])
            /\ Goto("fd_labels")
            /\ UNCHANGED <<mat_file, loadedV, fdV, rawV, stressV,
                           indexV, ssV, dfV, unitV, outV>>

FdLabels ==
    /\ pc = "fd_labels"
    /\ IF ~CanSlice("fd_labels", {"fd_cat_slice", "fd_reg_slice"})
       THEN Raise("KeyError")
       ELSE /\ ll_fd_cat' = Slice(mat_meta[struct["fd_labels"]], struct["fd_cat_slice"])
            /\ ll_fd_reg' = Slice(mat_meta[struct["fd_labels"]], struct["fd_reg_slice"])
            /\ Goto("stress_labels")
            /\ UNCHANGED <<mat_file, loadedV, monV, rawV, stressV,
                           indexV, ssV, dfV, unitV, outV>>

StressLabels ==
    /\ pc = "stress_labels"
    /\ IF ~CanSlice("stress_labels",
                    {"stress_name_slice", "stress_comp_slice", "stress_unit_slice"})
       THEN Raise("KeyError")
       ELSE /\ ll_stress_names' =
                   Slice(mat_meta[struct["stress_labels"]], struct["stress_name_slice"])
            /\ _ll_stress_comp' =
                   Slice(mat_meta[struct["stress_labels"]], struct["stress_comp_slice"])
            /\ _ll_stress_unit' =
                   Slice(mat_meta[struct["stress_labels"]], struct["stress_unit_slice"])
            /\ Goto("resolve")
            /\ UNCHANGED <<mat_file, loadedV, monV, fdV, stressV,
                           indexV, ssV, dfV, unitV, outV>>

ResolveStress ==
    /\ pc = "resolve"
    /\ IF FirstBad(struct, _ll_stress_unit) # "none"
       THEN Raise(FirstBad(struct, _ll_stress_unit))
       ELSE /\ ll_stress_comp' =
                   [i \in 1..Len(_ll_stress_unit) |->
                       ResolveComp(struct, _ll_stress_unit[i], _ll_stress_comp[i])]
            /\ ll_stress_unit' =
                   [i \in 1..Len(_ll_stress_unit) |->
                       ResolveUnit(_ll_stress_unit[i], _ll_stress_comp[i])]
            /\ Goto("multiindex")
            /\ UNCHANGED <<mat_file, loadedV, monV, fdV, rawV,
                           indexV, ssV, dfV, unitV, outV>>

BuildIndex ==
    /\ pc = "multiindex"
    /\ multiind_mon' = from_arrays(ll_reg, ll_sec)
    /\ multiind_fd_col' = from_arrays(ll_fd_reg, ll_fd_cat)
    /\ multiind_stress_row' = from_arrays(ll_stress_names, ll_stress_comp)
    /\ Goto("meta_scalars")
    /\ UNCHANGED <<mat_file, loadedV, monV, fdV, rawV, stressV,
                   ssV, dfV, unitV, outV>>

MetaScalars ==
    /\ pc = "meta_scalars"
    /\ IF ~(/\ Has(struct, "version") /\ Has(mat_meta, struct["version"])
            /\ Has(struct, "year") /\ Has(mat_meta, struct["year"]))
       THEN Raise("KeyError")
       ELSE /\ ss_version' = mat_meta[struct["version"]]
            /\ ss_year' = mat_meta[struct["year"]]
            /\ ss_io_system' = SystemTag(io_system, mat_meta)
            /\ Goto("Z")
            /\ UNCHANGED <<mat_file, loadedV, monV, fdV, rawV, stressV,
                           indexV, dfV, unitV, outV>>

\* _X = mat_io.__dict__[struct[key]], densified, then pd.DataFrame(...)
TableError(key, index, columns) ==
    IF ~(Has(struct, key) /\ Has(mat_io, struct[key])) THEN "KeyError"
    ELSE IF ~ShapeFits(Densified(mat_io[struct[key]]), index, columns)
         THEN "ValueError"
         ELSE "none"

Table(key, index, columns) ==
    DataFrame(Densified(mat_io[struct[key]]), index, columns)

BuildZ ==
    /\ pc = "Z"
    /\ IF TableError("Z", multiind_mon, multiind_mon) # "none"
       THEN Raise(TableError("Z", multiind_mon, multiind_mon))
       ELSE /\ df_Z' = Table("Z", multiind_mon, multiind_mon)
            /\ Goto("Y")
            /\ UNCHANGED <<mat_file, loadedV, monV, fdV, rawV, stressV,
                           indexV, ssV, df_Y, df_F, df_F_hh, unitV, outV>>

BuildY ==
    /\ pc = "Y"
    /\ IF TableError("Y", multiind_mon, multiind_fd_col) # "none"
       THEN Raise(TableError("Y", multiind_mon, multiind_fd_col))
       ELSE /\ df_Y' = Table("Y", multiind_mon, multiind_fd_col)
            /\ Goto("F")
            /\ UNCHANGED <<mat_file, loadedV, monV, fdV, rawV, stressV,
                           indexV, ssV, df_Z, df_F, df_F_hh, unitV, outV>>

BuildF ==
    /\ pc = "F"
    /\ IF TableError("F", multiind_stress_row, multiind_mon) # "none"
       THEN Raise(TableError("F", multiind_stress_row, multiind_mon))
       ELSE /\ df_F' = Table("F", multiind_stress_row, multiind_mon)
            /\ Goto("F_hh")
            /\ UNCHANGED <<mat_file, loadedV, monV, fdV, rawV, stressV,
                           indexV, ssV, df_Z, df_Y, df_F_hh, unitV, outV>>

BuildFhh ==
    /\ pc = "F_hh"
    /\ IF TableError("F_hh", multiind_stress_row, multiind_fd_col) # "none"
       THEN Raise(TableError("F_hh", multiind_stress_row, multiind_fd_col))
       ELSE /\ df_F_hh' = Table("F_hh", multiind_stress_row, multiind_fd_col)
            /\ Goto("units")
            /\ UNCHANGED <<mat_file, loadedV, monV, fdV, rawV, stressV,
                           indexV, ssV, df_Z, df_Y, df_F, unitV, outV>>

UnitError ==
    IF ~(Has(struct, "mon_unit") /\ Has(mat_meta, struct["mon_unit"])) THEN "KeyError"
    ELSE IF ~ShapeFits(Column(mat_meta[struct["mon_unit"]]), multiind_mon, <<"unit">>)
         THEN "ValueError"
         ELSE "none"

BuildUnits ==
    /\ pc = "units"
    /\ IF UnitError # "none"
       THEN Raise(UnitError)
       ELSE /\ df_mon_unit' = DataFrame(Column(mat_meta[struct["mon_unit"]]),
                                        multiind_mon, <<"unit">>)
            /\ df_F_unit' = DataFrame(Column(ll_stress_unit),
                                      multiind_stress_row, <<"unit">>)
            /\ Goto("build_system")
            /\ UNCHANGED <<mat_file, loadedV, monV, fdV, rawV, stressV,
                           indexV, ssV, dfV, outV>>

\* Extension(name='Satellite Accounts', F=df_F, F_hh=df_F_hh, unit=df_F_unit)
Extension(n, F, F_hh, unit) ==
    [name |-> n, F |-> F, F_hh |-> F_hh, unit |-> unit]

BuildSystem ==
    /\ pc = "build_system"
    /\ io_to_py' =
          [ name |-> name, version |-> ss_version, year |-> ss_year,
            iosystem |-> ss_io_system,
            Z |-> df_Z, Y |-> df_Y, unit |-> df_mon_unit,
            satellite |-> Extension("Satellite Accounts", df_F, df_F_hh, df_F_unit) ]
    /\ Goto("build_meta")
    /\ UNCHANGED <<mat_file, loadedV, monV, fdV, rawV, stressV,
                   indexV, ssV, dfV, unitV, meta_rec, retval>>

\* MRIOMetaData(...) followed by meta_rec._add_fileio(...)
MRIOMetaData(location, description, n, system, version, entry) ==
    [ location |-> location, description |-> description, name |-> n,
      system |-> system, version |-> version, history |-> <<entry>> ]

BuildMeta ==
    /\ pc = "build_meta"
    /\ meta_rec' =
          MRIOMetaData(dirname(mat_file), "MRIO parsed from NTNU mat structure",
                       name, ss_io_system, ss_version,
                       [text |-> "MAT MRIO structure parsed from", file |-> mat_file])
    /\ Goto("return")
    /\ UNCHANGED <<mat_file, loadedV, monV, fdV, rawV, stressV,
                   indexV, ssV, dfV, unitV, io_to_py, retval>>

\* return io_to_py
Return ==
    /\ pc = "return"
    /\ retval' = io_to_py
    /\ Goto("returned")
    /\ UNCHANGED <<mat_file, loadedV, monV, fdV, rawV, stressV,
                   indexV, ssV, dfV, unitV, io_to_py, meta_rec>>

(***************************************************************************)
(* The files and calls of the model.  A file is what loadmat returns for   *)
(* it: the data section with the four matrices, the meta section with the  *)
(* three label tables, the monetary units, the version and the year.       *)
(***************************************************************************)
MatNames == {"Z", "Y", "F", "F_hh"}

\* labsZ has the sector in column 1 and the region in column 5
MonRow(reg, sec) == <<"1", sec, "x", "x", "x", reg>>
\* labsY has the category in column 1 and the region in column 4
FdRow(reg, cat) == <<"1", cat, "x", "x", reg>>
\* labsF has name, compartment and unit in columns 0, 1, 2
StressRow(n, comp, unit) == <<Str(n), Str(comp), unit>>

MonRows == {MonRow("R1", "S1"), MonRow("R2", "S2")}
FdRows == {FdRow("R1", "hh"), FdRow("R2", "gov")}
StressRows ==
    { StressRow("CO2", "air", Str("kg")),
      StressRow("CH4", "air", Str("")),
      StressRow("VA", "M.EUR", EmptyArray),
      StressRow("N2O", "water", ArrayOf("kg")),
      StressRow("SO2", "soil", Number("1.0")) }

SeqsUpTo(S, n) == UNION {[1..k -> S] : k \in 0..n}

CanonMon(n) ==
    [i \in 1..n |-> IF i % 2 = 1 THEN MonRow("R1", "S1") ELSE MonRow("R2", "S2")]
CanonFd(n) ==
    [i \in 1..n |-> IF i % 2 = 1 THEN FdRow("R1", "hh") ELSE FdRow("R2", "gov")]
CanonStress(n) ==
    [i \in 1..n |-> IF i % 2 = 1 THEN StressRow("CO2", "air", Str("kg"))
                    ELSE StressRow("CH4", "water", Str("kg"))]

\* the value a file of pattern pat holds at row i, column j of a matrix
\* with c columns: "full" is 1, 2, 3, ... row by row, "holes" has zeros
Cell(i, j, c, pat) ==
    IF pat = "holes" /\ (i + j) % 2 = 0 THEN 0 ELSE (i - 1) * c + j

Matrix(shape, pat) ==
    [p \in Positions(shape) |-> Cell(p[1], p[2], shape[2], pat)]

\* the matrix as the file stores it: every value, or the nonzero entries
Encode(shape, val, kind) ==
    IF kind = "dense"
    THEN [kind |-> "dense", shape |-> shape, val |-> val, nz |-> {}]
    ELSE [kind |-> "sparse", shape |-> shape, val |-> [p \in {} |-> 0],
          nz |-> {<<p[1], p[2], val[p]>> : p \in {q \in Positions(shape) : val[q] # 0}}]

FittingDims(labsZ, labsY, labsF) ==
    [ Z    |-> <<Len(labsZ), Len(labsZ)>>,
      Y    |-> <<Len(labsZ), Len(labsY)>>,
      F    |-> <<Len(labsF), Len(labsZ)>>,
      F_hh |-> <<Len(labsF), Len(labsY)>> ]

Skewed(shape, how) ==
    CASE how = "fits" -> shape
      [] how = "rows" -> <<shape[1] + 1, shape[2]>>
      [] how = "cols" -> <<shape[1], shape[2] + 1>>

MatContainer(labsZ, labsY, labsF, dims, pat, enc, nunit, ver, years) ==
    [ IO   |-> [m \in MatNames |-> Encode(dims[m], Matrix(dims[m], pat), enc[m])],
      meta |-> [ labsZ |-> labsZ, labsY |-> labsY, labsF |-> labsF,
                 unit  |-> [i \in 1..nunit |-> "M.EUR"],
                 ver   |-> ver, years |-> years ] ]

AllDense == [m \in MatNames |-> "dense"]

Without(k) == [x \in StructKeys \ {k} |-> MAT_STRUCTURE[x]]

Start ==
    /\ pc = "normpath"
    /\ error = [type |-> "none", at |-> "none"]
    /\ name = "mrio"
    /\ mat_all = Unbound /\ mat_io = Unbound /\ mat_meta = Unbound
    /\ ll_sec = Unbound /\ ll_reg = Unbound
    /\ ll_fd_cat = Unbound /\ ll_fd_reg = Unbound
    /\ ll_stress_names = Unbound /\ _ll_stress_comp = Unbound
    /\ _ll_stress_unit = Unbound
    /\ ll_stress_comp = Unbound /\ ll_stress_unit = Unbound
    /\ multiind_mon = Unbound /\ multiind_fd_col = Unbound
    /\ multiind_stress_row = Unbound
    /\ ss_version = Unbound /\ ss_year = Unbound /\ ss_io_system = Unbound
    /\ df_Z = Unbound /\ df_Y = Unbound /\ df_F = Unbound /\ df_F_hh = Unbound
    /\ df_mon_unit = Unbound /\ df_F_unit = Unbound
    /\ io_to_py = Unbound /\ meta_rec = Unbound /\ retval = Unbound

\* calls that vary the stressor table, the field map and the name `logging`
InitStress ==
    \E k \in StructKeys \cup {"none"}, lg \in BOOLEAN,
       labsF \in SeqsUpTo(StressRows, MaxStress) :
        /\ struct = Without(k)
        /\ logging_defined = lg
        /\ io_system = "pxp"
        /\ mat_file = <<"data", "mrio.mat">>
        /\ disk = MatContainer(CanonMon(1), CanonFd(1), labsF,
                               FittingDims(CanonMon(1), CanonFd(1), labsF),
                               "full", AllDense, 1, "v1", 2007)

\* calls that vary the shapes of the four matrices and of the unit vector
InitShape ==
    \E nm \in 0..MaxMon, nf \in 0..MaxFd, ns \in 0..MaxStress,
       how \in [MatNames -> {"fits", "rows", "cols"}], du \in {0, 1} :
        /\ struct = MAT_STRUCTURE
        /\ logging_defined = TRUE
        /\ io_system = "ixi"
        /\ mat_file = <<"mrio.mat">>
        /\ disk = MatContainer(CanonMon(nm), CanonFd(nf), CanonStress(ns),
                     [m \in MatNames |->
                         Skewed(FittingDims(CanonMon(nm), CanonFd(nf), CanonStress(ns))[m],
                                how[m])],
                     "full", AllDense, nm + du, "v1", 2007)

\* calls that vary the labels, the values and encodings of the matrices,
\* the meta data, the path and the system tag
InitContent ==
    \E labsZ \in SeqsUpTo(MonRows, MaxMon), labsY \in SeqsUpTo(FdRows, MaxFd),
       pat \in {"full", "holes"}, enc \in [MatNames -> {"dense", "sparse"}],
       sys \in {"pxp", "ixi"},
       m \in {[ver |-> "v1", years |-> 2007, path |-> <<"data", "mrio.mat">>],
              [ver |-> "v2", years |-> 2011, path |-> <<"data", ".", "mrio.mat">>]} :
        /\ struct = MAT_STRUCTURE
        /\ logging_defined = TRUE
        /\ io_system = sys
        /\ mat_file = m.path
        /\ disk = MatContainer(labsZ, labsY, CanonStress(1),
                               FittingDims(labsZ, labsY, CanonStress(1)),
                               pat, enc, Len(labsZ), m.ver, m.years)

Init == Start /\ (InitStress \/ InitShape \/ InitContent)

Next ==
    \/ NormPath \/ LogRead \/ LoadMat \/ Sections
    \/ MonLabels \/ FdLabels \/ StressLabels \/ ResolveStress
    \/ BuildIndex \/ MetaScalars
    \/ BuildZ \/ BuildY \/ BuildF \/ BuildFhh \/ BuildUnits
    \/ BuildSystem \/ BuildMeta \/ Return

Spec == Init /\ [][Next]_vars

(***************************************************************************)
(* The file of a call, read at the default layout, for stating properties. *)
(***************************************************************************)
FileMon    == disk["meta"]["labsZ"]
FileFd     == disk["meta"]["labsY"]
FileStress == disk["meta"]["labsF"]
FileUnit   == disk["meta"]["unit"]

StressName(i) == FileStress[i][1]
StressComp(i) == FileStress[i][2]
StressUnit(i) == FileStress[i][3]
StressIdx     == 1..Len(FileStress)

\* every matrix and the unit vector agree with the label tables
FileFits ==
    /\ \A m \in MatNames : disk["IO"][m].shape = FittingDims(FileMon, FileFd, FileStress)[m]
    /\ Len(FileUnit) = Len(FileMon)
\* no stressor unit is an unsized value
UnitsSized == \A i \in StressIdx : HasLen(StressUnit(i))
\* the field map has every key
FullMap == DOMAIN struct = StructKeys

IsEmptyUnit(v) == HasLen(v) /\ v.size = 0

MonPairs    == [i \in 1..Len(FileMon) |-> <<FileMon[i][6], FileMon[i][2]>>]
FdPairs     == [i \in 1..Len(FileFd) |-> <<FileFd[i][5], FileFd[i][2]>>]
StressPairs == [i \in StressIdx |-> <<StressName(i), ll_stress_comp[i]>>]

Df(m) ==
    CASE m = "Z" -> df_Z [] m = "Y" -> df_Y [] m = "F" -> df_F [] m = "F_hh" -> df_F_hh

Out(m) ==
    CASE m = "Z" -> retval.Z [] m = "Y" -> retval.Y
      [] m = "F" -> retval.satellite.F [] m = "F_hh" -> retval.satellite.F_hh

Patterns == {"full", "holes"}

\* C1: of a returned object, every stressor row whose sliced unit is empty
\* (an empty string or an empty array) has the sentinel struct['empty_comp']
\* as compartment and the sliced compartment value as unit.
C1_FallbackSwap ==
    pc = "returned" =>
        \A i \in StressIdx :
            IsEmptyUnit(StressUnit(i)) =>
                /\ retval.satellite.F.index[i][2] = struct["empty_comp"]
                /\ retval.satellite.unit.values[<<i, 1>>] = StressComp(i)

\* C2: of a returned object, every stressor row whose sliced unit is not
\* empty, of whatever type, keeps the sliced compartment as compartment and
\* the sliced unit as unit.
C2_NoSwapOnNonEmptyUnit ==
    pc = "returned" =>
        \A i \in StressIdx :
            ~IsEmptyUnit(StressUnit(i)) =>
                /\ retval.satellite.F.index[i][2] = StressComp(i)
                /\ retval.satellite.unit.values[<<i, 1>>] = StressUnit(i)

\* C3: a call on an otherwise valid file with a field map that lacks one key
\* ends with a KeyError and without an IOSystem, whatever the file holds.
C3_MissingKeyFails ==
    (logging_defined /\ FileFits /\ UnitsSized /\ ~FullMap /\ pc \in {"returned", "raised"}) =>
        /\ pc = "raised"
        /\ error.type = "KeyError"
        /\ ~IsBound(io_to_py)

\* the step of parse_mat that dereferences key k of the field map
StepOf(k) ==
    CASE k \in {"data", "meta"} -> "sections"
      [] k \in {"mon_labels", "mon_sec_slice", "mon_reg_slice"} -> "mon_labels"
      [] k \in {"fd_labels", "fd_cat_slice", "fd_reg_slice"} -> "fd_labels"
      [] k \in {"stress_labels", "stress_name_slice", "stress_comp_slice",
                "stress_unit_slice"} -> "stress_labels"
      [] k = "empty_comp" -> "resolve"
      [] k \in {"version", "year"} -> "meta_scalars"
      [] k = "mon_unit" -> "units"
      [] OTHER -> k

PcOrder ==
    << "normpath", "log_read", "loadmat", "sections", "mon_labels", "fd_labels",
       "stress_labels", "resolve", "multiindex", "meta_scalars",
       "Z", "Y", "F", "F_hh", "units", "build_system", "build_meta",
       "return", "returned" >>

PcIndex(p) == CHOOSE i \in 1..Len(PcOrder) : PcOrder[i] = p

\* position p is not past the step that dereferences k
NotPast(p, k) == PcIndex(p) <= PcIndex(StepOf(k))

\* C3, amended: with a field map lacking a key other than 'empty_comp' the
\* call never gets past the step that dereferences the key, builds no
\* IOSystem and returns nothing, and what that step raises is a KeyError.
\* Lacking 'empty_comp', the same holds when a stressor row with an empty
\* unit is reached (a KeyError of the resolve step comes from such a row);
\* when no row has an empty unit the call on an otherwise valid input
\* returns as it does with the full map.
C3_MissingKeyAmended ==
    /\ \A k \in StructKeys \ {"empty_comp"} :
          ~Has(struct, k) =>
              /\ ~IsBound(io_to_py) /\ ~IsBound(retval)
              /\ pc # "raised" => NotPast(pc, k)
              /\ pc = "raised" =>
                    /\ NotPast(error.at, k)
                    /\ error.at = StepOf(k) => error.type = "KeyError"
    /\ ~Has(struct, "empty_comp") =>
          /\ (\E i \in StressIdx : IsEmptyUnit(StressUnit(i)) \/ ~HasLen(StressUnit(i))) =>
                /\ ~IsBound(io_to_py) /\ ~IsBound(retval)
                /\ pc # "raised" => NotPast(pc, "empty_comp")
                /\ pc = "raised" => NotPast(error.at, "empty_comp")
          /\ (pc = "raised" /\ error = [type |-> "KeyError", at |-> "resolve"]) =>
                \E i \in StressIdx : IsEmptyUnit(StressUnit(i))
          /\ (/\ \A i \in StressIdx : ~IsEmptyUnit(StressUnit(i))
              /\ logging_defined /\ FileFits /\ UnitsSized
              /\ pc \in {"returned", "raised"}) =>
                pc = "returned"

C3_Witness ==
    /\ ~Has(struct, "F_hh")
    /\ pc = "raised"
    /\ error = [type |-> "KeyError", at |-> "F_hh"]
    /\ IsBound(df_F) /\ ~IsBound(io_to_py)
    /\ \E i \in StressIdx : ~IsEmptyUnit(StressUnit(i))

\* C4: a call that returns hands the caller the provenance record with the
\* object: the record of the file's directory, the object's name, system
\* and version, and one log entry naming the file.
C4_ProvenanceDelivered ==
    pc = "returned" =>
        /\ Has(retval, "meta")
        /\ retval["meta"] = meta_rec
        /\ meta_rec.location = dirname(mat_file)
        /\ meta_rec.name = retval.name
        /\ meta_rec.system = retval.iosystem
        /\ meta_rec.version = retval.version
        /\ Len(meta_rec.history) = 1
        /\ meta_rec.history[1].file = mat_file

\* C5: of a returned object, Z is square over the monetary labels, Y is
\* monetary by final demand, F is stressors by monetary, F_hh is stressors
\* by final demand, and the unit tables have one row per monetary and per
\* stressor label.
C5_ShapeInvariant ==
    pc = "returned" =>
        LET nm == Len(FileMon)
            nf == Len(FileFd)
            ns == Len(FileStress)
        IN  /\ retval.Z.shape = <<nm, nm>>
            /\ Len(retval.Z.index) = nm /\ Len(retval.Z.columns) = nm
            /\ retval.Y.shape = <<nm, nf>>
            /\ Len(retval.Y.index) = nm /\ Len(retval.Y.columns) = nf
            /\ retval.satellite.F.shape = <<ns, nm>>
            /\ Len(retval.satellite.F.index) = ns
            /\ Len(retval.satellite.F.columns) = nm
            /\ retval.satellite.F_hh.shape = <<ns, nf>>
            /\ Len(retval.satellite.F_hh.index) = ns
            /\ Len(retval.satellite.F_hh.columns) = nf
            /\ retval.unit.shape = <<nm, 1>> /\ Len(retval.unit.index) = nm
            /\ retval.satellite.unit.shape = <<ns, 1>>
            /\ Len(retval.satellite.unit.index) = ns

C5_Witness ==
    /\ pc = "returned"
    /\ Len(FileMon) = 2 /\ Len(FileFd) = 1 /\ Len(FileStress) = 2
    /\ retval.Y.shape = <<2, 1>>
    /\ retval.satellite.F.shape = <<2, 2>>

C9_SystemTagFromCaller ==
    pc = "returned" =>
        /\ retval.iosystem = io_system
        /\ meta_rec.system = io_system
        /\ retval.version = disk["meta"]["ver"]
        /\ retval.year = disk["meta"]["years"]

C9_Witness ==
    /\ pc = "returned"
    /\ io_system = "ixi" /\ retval.iosystem = "ixi"
    /\ retval.version = "v1" /\ retval.year = 2007

\* C10: a call on an otherwise valid input with a stressor unit that is
\* neither a string nor a sized container does not raise, and returns the
\* sentinel struct['empty_comp'] as that row's compartment.
C10_AmbiguityNeverFails ==
    (logging_defined /\ FullMap /\ FileFits /\ ~UnitsSized) =>
        /\ pc # "raised"
        /\ pc = "returned" =>
              \A i \in StressIdx :
                  ~HasLen(StressUnit(i)) =>
                      retval.satellite.F.index[i][2] = struct["empty_comp"]

====
